---- MODULE Spec2Model ----
(***************************************************************************)
(* Model of container_daemon.ContainerDaemon (daemon.go): the connection   *)
(* handler Handle, the completion task reportExitStatus with its tidyUp    *)
(* closure, and tryToReportErrorf.  The Credential Resolver (Users), the   *)
(* Process Runner, os.Pipe, the json decoder and os.File.Write are         *)
(* collaborators: each call's outcome is an input of the step calling it.  *)
(***************************************************************************)
EXTENDS Integers, Sequences, FiniteSets, TLC

(* ---- bounds ---- *)
\* number of connections the listener hands to Handle
NumConns == 2

\* number of calls of Stop
MaxStops == 2

Conns == 1..NumConns

(* ---- program constants ---- *)
\* the reserved exit status of the package (used at daemon.go:116)
UnknownExitStatus == 255
\* for i := 0; i < 4; i++  (daemon.go:58, 64)
NumPipes == 4

(* ---- inputs ---- *)
\* exit codes runner.Wait may return without an error
ExitCodes == {0, 1}
\* spec.User values a decoded ProcessSpec may carry
UserNames == {"", "alice"}
\* texts of the Uid / Gid fields of a user record, as character sequences
DigitChars == <<"0", "1", "2", "3", "4", "5", "6", "7", "8", "9">>
UserRecords ==
    { [Uid |-> <<"1", "0">>, Gid |-> <<"7">>],
      [Uid |-> <<"x">>,      Gid |-> <<"7">>] }
NoUser == [found |-> FALSE, Uid |-> <<>>, Gid |-> <<>>]

IsDigit(c) == \E i \in 1..10 : DigitChars[i] = c
DigitVal(c) == (CHOOSE i \in 1..10 : DigitChars[i] = c) - 1

RECURSIVE ScanDigits(_, _)
\* the value of the longest prefix of digits of text, acc being the value so far
ScanDigits(text, acc) ==
    IF text = <<>> \/ ~IsDigit(Head(text))
    THEN acc
    ELSE ScanDigits(Tail(text), acc * 10 + DigitVal(Head(text)))

\* fmt.Sscanf(text, "%d", &v) for a uint32 v holding old: v is assigned only
\* when text starts with a digit; the error is ignored.  The texts of
\* UserRecords have at most two characters, so the number always fits uint32.
Sscanf(text, old) ==
    IF text = <<>> \/ ~IsDigit(Head(text))
    THEN old
    ELSE ScanDigits(text, 0)

(* ---- state ---- *)
VARIABLES
    pc,         \* position of each connection's Handle call
    spec,       \* the decoded ProcessSpec (its User), until Handle returns
    pipes,      \* Handle's local pipes array: per created pipe, closes of r and w
    user,       \* the record cd.Users.Lookup returned
    cmd,        \* the exec.Cmd built by Handle, until runner.Wait returns
    result,     \* what Handle returned: files and err
    task,       \* position of the goroutine running reportExitStatus
    exitStatus, \* reportExitStatus's local exitStatus
    waitResult, \* what runner.Wait returned: the exit status and the error
    written,    \* what the daemon wrote: to the exit-status pipe and to stderr
    reports,    \* the calls of tryToReportErrorf: the message and whether its Write succeeded
    calls,      \* per connection: calls of Lookup and Start, returns of Wait, go statements
    stopped     \* the calls of Stop so far and what the last one returned

\* the state of the connections: Handle and reportExitStatus work on nothing else
connVars == <<pc, spec, pipes, user, cmd, result, task, exitStatus, waitResult,
              written, reports, calls>>
vars == <<pc, spec, pipes, user, cmd, result, task, exitStatus, waitResult, written,
          reports, calls, stopped>>

NoSpec == [decoded |-> FALSE, User |-> ""]
NoCmd == [built |-> FALSE, Uid |-> 0, Gid |-> 0,
          Stdin |-> <<>>, Stdout |-> <<>>, Stderr |-> <<>>]
NoResult == [returned |-> FALSE, files |-> <<>>, err |-> ""]
NoWait == [returned |-> FALSE, exitStatus |-> 0, err |-> ""]
NoCalls == [Lookup |-> 0, Start |-> 0, Wait |-> 0, go |-> 0]

\* a pipe end is <<index of the pipe in pipes, "r" or "w">>
stdinW == <<1, "w">>
stdoutR == <<2, "r">>
stderrR == <<3, "r">>
exitStatusR == <<4, "r">>

\* the ends tidyUp closes: pipes[0].r and pipes[1..3].w
ServerEnds == {<<1, "r">>, <<2, "w">>, <<3, "w">>, <<4, "w">>}
ClientEnds == {stdinW, stdoutR, stderrR, exitStatusR}

\* number of Close calls made on an end of connection h
Closes(h, e) == IF e[2] = "r" THEN pipes[h][e[1]].r ELSE pipes[h][e[1]].w
Created(h, e) == e[1] <= Len(pipes[h])
IsOpen(h, e) == Created(h, e) /\ Closes(h, e) = 0

Init ==
    /\ pc = [h \in Conns |-> "decode"]
    /\ spec = [h \in Conns |-> NoSpec]
    /\ pipes = [h \in Conns |-> <<>>]
    /\ user = [h \in Conns |-> NoUser]
    /\ cmd = [h \in Conns |-> NoCmd]
    /\ result = [h \in Conns |-> NoResult]
    /\ task = [h \in Conns |-> "none"]
    /\ exitStatus = [h \in Conns |-> 0]
    /\ waitResult = [h \in Conns |-> NoWait]
    /\ written = [h \in Conns |-> [exit |-> <<>>, stderr |-> <<>>]]
    /\ reports = [h \in Conns |-> <<>>]
    /\ calls = [h \in Conns |-> NoCalls]
    /\ stopped = [calls |-> 0, err |-> ""]

\* os.Pipe(): a new pipe with both ends open.  The kernel object is named by
\* the call that created it, the k-th os.Pipe of connection h
NewPipe(h, k) == [id |-> <<h, k>>, r |-> 0, w |-> 0]

\* return nil, fmt.Errorf(...): Handle's locals go out of scope; the pipes it
\* created stay as they are
ReturnError(h, e) ==
    /\ pc' = [pc EXCEPT ![h] = "returned"]
    /\ result' = [result EXCEPT ![h] = [returned |-> TRUE, files |-> <<>>, err |-> e]]
    /\ spec' = [spec EXCEPT ![h] = NoSpec]
    /\ user' = [user EXCEPT ![h] = NoUser]
    /\ cmd' = [cmd EXCEPT ![h] = NoCmd]

\* Decode with the first pipe allocated before the decode error is looked at
DecodeAfterPipe(h) ==
    /\ pc[h] = "decode"
    /\ pipes' = [pipes EXCEPT ![h] = Append(@, NewPipe(h, 1))]
    /\ \/ \E u \in UserNames :
            /\ spec' = [spec EXCEPT ![h] = [decoded |-> TRUE, User |-> u]]
            /\ pc' = [pc EXCEPT ![h] = "pipe"]
            /\ UNCHANGED <<result, user, cmd>>
       \/ ReturnError(h, "container_daemon: Decode failed")
    /\ UNCHANGED <<task, exitStatus, waitResult, written, reports, calls>>

\* decoder.Decode(&spec) and the early return on its error
Decode(h) ==
    /\ pc[h] = "decode"
    /\ \/ \E u \in UserNames :
            /\ spec' = [spec EXCEPT ![h] = [decoded |-> TRUE, User |-> u]]
            /\ pc' = [pc EXCEPT ![h] = "pipe"]
            /\ UNCHANGED <<result, user, cmd>>
       \/ ReturnError(h, "container_daemon: Decode failed")
    /\ UNCHANGED <<pipes, task, exitStatus, waitResult, written, reports, calls>>

\* the loop with the pipes kept in one array of the daemon that all calls use
CreatePipeShared(h) ==
    /\ pc[h] = "pipe"
    /\ Len(pipes[h]) < NumPipes
    /\ \/ /\ pipes' = [pipes EXCEPT ![h] = Append(@, NewPipe(0, Len(pipes[h]) + 1))]
          /\ pc' = [pc EXCEPT ![h] =
                       IF Len(pipes[h]) + 1 = NumPipes THEN "lookup" ELSE "pipe"]
          /\ UNCHANGED <<result, spec, user, cmd>>
       \/ /\ ReturnError(h, "container_daemon: Failed to create pipe")
          /\ UNCHANGED pipes
    /\ UNCHANGED <<task, exitStatus, waitResult, written, reports, calls>>

\* the loop leaving one pipe early
CreatePipeOffByOne(h) ==
    /\ pc[h] = "pipe"
    /\ Len(pipes[h]) < NumPipes - 1
    /\ \/ /\ pipes' = [pipes EXCEPT ![h] = Append(@, NewPipe(h, Len(pipes[h]) + 1))]
          /\ pc' = [pc EXCEPT ![h] =
                       IF Len(pipes[h]) + 1 = NumPipes - 1 THEN "lookup" ELSE "pipe"]
          /\ UNCHANGED <<result, spec, user, cmd>>
       \/ /\ ReturnError(h, "container_daemon: Failed to create pipe")
          /\ UNCHANGED pipes
    /\ UNCHANGED <<task, exitStatus, waitResult, written, reports, calls>>

\* one iteration of the loop creating the four pipes: os.Pipe() and the
\* return on its error
CreatePipe(h) ==
    /\ pc[h] = "pipe"
    /\ Len(pipes[h]) < NumPipes
    /\ \/ /\ pipes' = [pipes EXCEPT ![h] = Append(@, NewPipe(h, Len(pipes[h]) + 1))]
          /\ pc' = [pc EXCEPT ![h] =
                       IF Len(pipes[h]) + 1 = NumPipes THEN "lookup" ELSE "pipe"]
          /\ UNCHANGED <<result, spec, user, cmd>>
       \/ /\ ReturnError(h, "container_daemon: Failed to create pipe")
          /\ UNCHANGED pipes
    /\ UNCHANGED <<task, exitStatus, waitResult, written, reports, calls>>

\* exec.Command with the credential parsed from the record and the stdio wiring
BuildCmd(u) ==
    [built |-> TRUE, Uid |-> Sscanf(u.Uid, 0), Gid |-> Sscanf(u.Gid, 0),
     Stdin |-> <<1, "r">>, Stdout |-> <<2, "w">>, Stderr |-> <<3, "w">>]

\* Lookup whose failure branches record the error but do not return
LookupFallsThrough(h) ==
    /\ pc[h] = "lookup"
    /\ calls' = [calls EXCEPT ![h].Lookup = @ + 1]
    /\ pc' = [pc EXCEPT ![h] = "start"]
    /\ \/ \E u \in UserRecords :
            /\ user' = [user EXCEPT ![h] = u]
            /\ cmd' = [cmd EXCEPT ![h] = BuildCmd(u)]
            /\ UNCHANGED result
       \/ \E e \in {"container_daemon: failed to lookup user",
                     "container_daemon: lookup user"} :
            /\ result' = [result EXCEPT ![h].err = e]
            /\ cmd' = [cmd EXCEPT ![h] = BuildCmd(NoUser)]
            /\ UNCHANGED user
    /\ UNCHANGED <<spec, pipes, task, exitStatus, waitResult, written, reports>>

\* cd.Users.Lookup(spec.User): a record, no record, or an error; then the
\* parse of uid and gid and the command
Lookup(h) ==
    /\ pc[h] = "lookup"
    /\ calls' = [calls EXCEPT ![h].Lookup = @ + 1]
    /\ \/ \E u \in UserRecords :
            /\ user' = [user EXCEPT ![h] = u]
            /\ cmd' = [cmd EXCEPT ![h] = BuildCmd(u)]
            /\ pc' = [pc EXCEPT ![h] = "start"]
            /\ UNCHANGED <<result, spec>>
       \/ ReturnError(h, "container_daemon: failed to lookup user")
       \/ ReturnError(h, "container_daemon: lookup user")
    /\ UNCHANGED <<pipes, task, exitStatus, waitResult, written, reports>>

\* Start with the go statement placed before the check of its error
StartLaunchesFirst(h) ==
    /\ pc[h] = "start"
    /\ \/ /\ pc' = [pc EXCEPT ![h] = "go"]
          /\ calls' = [calls EXCEPT ![h].Start = @ + 1]
          /\ UNCHANGED <<result, spec, user, cmd, task>>
       \/ /\ ReturnError(h, "container_daemon: running command")
          /\ calls' = [calls EXCEPT ![h].Start = @ + 1, ![h].go = @ + 1]
          /\ task' = [task EXCEPT ![h] = "wait"]
    /\ UNCHANGED <<pipes, exitStatus, waitResult, written, reports>>

\* cd.Runner.Start(cmd) and the return on its error
Start(h) ==
    /\ pc[h] = "start"
    /\ calls' = [calls EXCEPT ![h].Start = @ + 1]
    /\ \/ /\ pc' = [pc EXCEPT ![h] = "go"]
          /\ UNCHANGED <<result, spec, user, cmd>>
       \/ ReturnError(h, "container_daemon: running command")
    /\ UNCHANGED <<pipes, task, exitStatus, waitResult, written, reports>>

\* Return with the descriptors in the order of the server's view
ReturnWrongOrder(h) ==
    /\ pc[h] = "go"
    /\ task' = [task EXCEPT ![h] = "wait"]
    /\ calls' = [calls EXCEPT ![h].go = @ + 1]
    /\ pc' = [pc EXCEPT ![h] = "returned"]
    /\ result' = [result EXCEPT ![h] =
                     [returned |-> TRUE,
                      files |-> <<stdoutR, stdinW, stderrR, exitStatusR>>,
                      err |-> ""]]
    /\ spec' = [spec EXCEPT ![h] = NoSpec]
    /\ user' = [user EXCEPT ![h] = NoUser]
    /\ UNCHANGED <<pipes, cmd, exitStatus, waitResult, written, reports>>

\* Return with reportExitStatus called without go: the return waits for it
ReturnAfterReport(h) ==
    /\ pc[h] = "go"
    /\ \/ /\ task[h] = "none"
          /\ task' = [task EXCEPT ![h] = "wait"]
          /\ calls' = [calls EXCEPT ![h].go = @ + 1]
          /\ UNCHANGED <<pc, result, spec, user>>
       \/ /\ task[h] = "done"
          /\ pc' = [pc EXCEPT ![h] = "returned"]
          /\ result' = [result EXCEPT ![h] =
                           [returned |-> TRUE,
                            files |-> <<stdinW, stdoutR, stderrR, exitStatusR>>,
                            err |-> ""]]
          /\ spec' = [spec EXCEPT ![h] = NoSpec]
          /\ user' = [user EXCEPT ![h] = NoUser]
          /\ UNCHANGED <<task, calls>>
    /\ UNCHANGED <<pipes, cmd, exitStatus, waitResult, written, reports>>

\* go reportExitStatus(...) and
\* return []*os.File{stdinW, stdoutR, stderrR, exitStatusR}, nil
\* One step: the return touches none of the state the goroutine works on, so
\* it commutes with every step of reportExitStatus.
Return(h) ==
    /\ pc[h] = "go"
    /\ task' = [task EXCEPT ![h] = "wait"]
    /\ calls' = [calls EXCEPT ![h].go = @ + 1]
    /\ pc' = [pc EXCEPT ![h] = "returned"]
    /\ result' = [result EXCEPT ![h] =
                     [returned |-> TRUE,
                      files |-> <<stdinW, stdoutR, stderrR, exitStatusR>>,
                      err |-> ""]]
    /\ spec' = [spec EXCEPT ![h] = NoSpec]
    /\ user' = [user EXCEPT ![h] = NoUser]
    /\ UNCHANGED <<pipes, cmd, exitStatus, waitResult, written, reports>>

Handle(h) ==
    \/ Decode(h)
    \/ CreatePipe(h)
    \/ Lookup(h)
    \/ Start(h)
    \/ Return(h)

\* File.Close on end e of a pipes array
Close(ps, e) ==
    IF e[2] = "r"
    THEN [ps EXCEPT ![e[1]].r = @ + 1]
    ELSE [ps EXCEPT ![e[1]].w = @ + 1]

\* the exit status runner.Wait returns together with an error
ErrExitCodes == {0}
\* the errors the runner and the exit-status Write may return
WaitErrors == {"wait: no child processes"}
WriteErrors == {"write: broken pipe"}

\* fmt.Sprintf(format, inserts) with the slice inserts passed as ONE operand:
\* the literal text of the format, then the slice printed in brackets
Sprintf(format, inserts) == <<format, "[">> \o inserts \o <<"]">>

\* message := fmt.Sprintf(format, inserts); errWriter.Write([]byte(message)),
\* the error of the Write ignored
tryToReportErrorf(h, format, inserts, ok) ==
    /\ written' = [written EXCEPT ![h].stderr =
                      IF ok THEN Append(@, Sprintf(format, inserts)) ELSE @]
    /\ reports' = [reports EXCEPT ![h] =
                      Append(@, [message |-> Sprintf(format, inserts), ok |-> ok])]

\* Wait whose results are assigned to variables shadowing exitStatus
WaitShadowed(h) ==
    /\ task[h] = "wait"
    /\ calls' = [calls EXCEPT ![h].Wait = @ + 1]
    /\ task' = [task EXCEPT ![h] = "write"]
    /\ cmd' = [cmd EXCEPT ![h] = NoCmd]
    /\ \/ \E c \in ExitCodes :
            /\ waitResult' = [waitResult EXCEPT ![h] =
                                 [returned |-> TRUE, exitStatus |-> c, err |-> ""]]
            /\ UNCHANGED <<exitStatus, written, reports>>
       \/ \E c \in ErrExitCodes, err \in WaitErrors, ok \in BOOLEAN :
            /\ waitResult' = [waitResult EXCEPT ![h] =
                                 [returned |-> TRUE, exitStatus |-> c, err |-> err]]
            /\ exitStatus' = [exitStatus EXCEPT ![h] = UnknownExitStatus]
            /\ tryToReportErrorf(h, "container_daemon: Wait failed: %s", <<err>>, ok)
    /\ UNCHANGED <<pc, spec, pipes, user, result>>

\* Wait whose error branch reports the failure but keeps the status Wait returned
WaitNoSentinel(h) ==
    /\ task[h] = "wait"
    /\ calls' = [calls EXCEPT ![h].Wait = @ + 1]
    /\ task' = [task EXCEPT ![h] = "write"]
    /\ cmd' = [cmd EXCEPT ![h] = NoCmd]
    /\ \/ \E c \in ExitCodes :
            /\ waitResult' = [waitResult EXCEPT ![h] =
                                 [returned |-> TRUE, exitStatus |-> c, err |-> ""]]
            /\ exitStatus' = [exitStatus EXCEPT ![h] = c]
            /\ UNCHANGED <<written, reports>>
       \/ \E c \in ErrExitCodes, err \in WaitErrors, ok \in BOOLEAN :
            /\ waitResult' = [waitResult EXCEPT ![h] =
                                 [returned |-> TRUE, exitStatus |-> c, err |-> err]]
            /\ exitStatus' = [exitStatus EXCEPT ![h] = c]
            /\ tryToReportErrorf(h, "container_daemon: Wait failed: %s", <<err>>, ok)
    /\ UNCHANGED <<pc, spec, pipes, user, result>>

\* Wait with tidyUp called at the top of reportExitStatus instead of deferred
WaitAfterTidyUp(h) ==
    /\ task[h] = "wait"
    /\ calls' = [calls EXCEPT ![h].Wait = @ + 1]
    /\ task' = [task EXCEPT ![h] = "write"]
    /\ cmd' = [cmd EXCEPT ![h] = NoCmd]
    /\ pipes' = [pipes EXCEPT ![h] =
          Close(Close(Close(Close(@, <<1, "r">>), <<2, "w">>), <<3, "w">>), <<4, "w">>)]
    /\ \/ \E c \in ExitCodes :
            /\ waitResult' = [waitResult EXCEPT ![h] =
                                 [returned |-> TRUE, exitStatus |-> c, err |-> ""]]
            /\ exitStatus' = [exitStatus EXCEPT ![h] = c]
            /\ UNCHANGED <<written, reports>>
       \/ \E c \in ErrExitCodes, err \in WaitErrors, ok \in BOOLEAN :
            /\ waitResult' = [waitResult EXCEPT ![h] =
                                 [returned |-> TRUE, exitStatus |-> c, err |-> err]]
            /\ exitStatus' = [exitStatus EXCEPT ![h] = UnknownExitStatus]
            /\ tryToReportErrorf(h, "container_daemon: Wait failed: %s", <<err>>, ok)
    /\ UNCHANGED <<pc, spec, user, result>>

\* runner.Wait(cmd) returns an exit code or an error; on the error the
\* sentinel replaces the code and the diagnostic goes to errWriter
Wait(h) ==
    /\ task[h] = "wait"
    /\ calls' = [calls EXCEPT ![h].Wait = @ + 1]
    /\ task' = [task EXCEPT ![h] = "write"]
    /\ cmd' = [cmd EXCEPT ![h] = NoCmd]
    /\ \/ \E c \in ExitCodes :
            /\ waitResult' = [waitResult EXCEPT ![h] =
                                 [returned |-> TRUE, exitStatus |-> c, err |-> ""]]
            /\ exitStatus' = [exitStatus EXCEPT ![h] = c]
            /\ UNCHANGED <<written, reports>>
       \/ \E c \in ErrExitCodes, err \in WaitErrors, ok \in BOOLEAN :
            /\ waitResult' = [waitResult EXCEPT ![h] =
                                 [returned |-> TRUE, exitStatus |-> c, err |-> err]]
            /\ exitStatus' = [exitStatus EXCEPT ![h] = UnknownExitStatus]
            /\ tryToReportErrorf(h, "container_daemon: Wait failed: %s", <<err>>, ok)
    /\ UNCHANGED <<pc, spec, pipes, user, result>>

\* WriteExitStatus that returns on the Write error, tidyUp not being deferred
WriteExitStatusReturnsOnError(h) ==
    /\ task[h] = "write"
    /\ \/ /\ written' = [written EXCEPT ![h].exit = Append(@, exitStatus[h])]
          /\ task' = [task EXCEPT ![h] = "tidyUp"]
          /\ UNCHANGED reports
       \/ /\ \E err \in WriteErrors, ok \in BOOLEAN :
               tryToReportErrorf(h, "container_daemon: failed to Write exit status: %s",
                                 <<err>>, ok)
          /\ task' = [task EXCEPT ![h] = "done"]
    /\ UNCHANGED <<pc, spec, pipes, user, cmd, result, exitStatus, waitResult, calls>>

\* WriteExitStatus that writes the byte again after a failed Write
WriteExitStatusRetries(h) ==
    /\ task[h] = "write"
    /\ task' = [task EXCEPT ![h] = "tidyUp"]
    /\ \/ /\ written' = [written EXCEPT ![h].exit = Append(@, exitStatus[h])]
          /\ UNCHANGED reports
       \/ /\ written' = [written EXCEPT
                            ![h].exit = Append(Append(@, exitStatus[h]), exitStatus[h])]
          /\ UNCHANGED reports
       \/ \E err \in WriteErrors, ok \in BOOLEAN :
            tryToReportErrorf(h, "container_daemon: failed to Write exit status: %s",
                              <<err>>, ok)
    /\ UNCHANGED <<pc, spec, pipes, user, cmd, result, exitStatus, waitResult, calls>>

\* exitWriter.Write([]byte{exitStatus}); on its error the diagnostic
WriteExitStatus(h) ==
    /\ task[h] = "write"
    /\ task' = [task EXCEPT ![h] = "tidyUp"]
    /\ \/ /\ written' = [written EXCEPT ![h].exit = Append(@, exitStatus[h])]
          /\ UNCHANGED reports
       \/ \E err \in WriteErrors, ok \in BOOLEAN :
            tryToReportErrorf(h, "container_daemon: failed to Write exit status: %s",
                              <<err>>, ok)
    /\ UNCHANGED <<pc, spec, pipes, user, cmd, result, exitStatus, waitResult, calls>>

\* tidyUp without the Close of pipes[0].r
tidyUpSkipsStdin(h) ==
    /\ task[h] = "tidyUp"
    /\ task' = [task EXCEPT ![h] = "done"]
    /\ pipes' = [pipes EXCEPT ![h] =
          Close(Close(Close(@, <<2, "w">>), <<3, "w">>), <<4, "w">>)]
    /\ UNCHANGED <<pc, spec, user, cmd, result, exitStatus, waitResult, written,
                   reports, calls>>

\* the deferred closure: pipes[0].r.Close(), then pipes[i].w.Close() for i = 1..3
tidyUp(h) ==
    /\ task[h] = "tidyUp"
    /\ task' = [task EXCEPT ![h] = "done"]
    /\ pipes' = [pipes EXCEPT ![h] =
          Close(Close(Close(Close(@, <<1, "r">>), <<2, "w">>), <<3, "w">>), <<4, "w">>)]
    /\ UNCHANGED <<pc, spec, user, cmd, result, exitStatus, waitResult, written,
                   reports, calls>>

reportExitStatus(h) ==
    \/ Wait(h)
    \/ WriteExitStatus(h)
    \/ tidyUp(h)

\* the errors cd.Listener.Stop may return
ListenerErrors == {"close: use of closed network connection"}

\* Stop that also ends the completion tasks still pending
StopCancelsTasks ==
    /\ stopped.calls < MaxStops
    /\ \/ stopped' = [calls |-> stopped.calls + 1, err |-> ""]
       \/ \E err \in ListenerErrors :
            stopped' = [calls |-> stopped.calls + 1,
                        err |-> "container_daemon: stopping the listener: %s"]
    /\ task' = [h \in Conns |->
                  IF task[h] \in {"wait", "write", "tidyUp"} THEN "done" ELSE task[h]]
    /\ UNCHANGED <<pc, spec, pipes, user, cmd, result, exitStatus, waitResult,
                   written, reports, calls>>

\* cd.Listener.Stop() and the error wrapped when it fails; nothing else
Stop ==
    /\ stopped.calls < MaxStops
    /\ \/ stopped' = [calls |-> stopped.calls + 1, err |-> ""]
       \/ \E err \in ListenerErrors :
            stopped' = [calls |-> stopped.calls + 1,
                        err |-> "container_daemon: stopping the listener: %s"]
    /\ UNCHANGED connVars

\* the steps of the connections leave the daemon itself alone: Handle and
\* reportExitStatus read and write no field of cd but Users and Runner
Connection(h) ==
    /\ Handle(h) \/ reportExitStatus(h)
    /\ UNCHANGED stopped

Next == (\E h \in Conns : Connection(h)) \/ Stop

Spec == Init /\ [][Next]_vars

\* a step of the goroutine once runner.Wait has returned: the scheduler runs
\* every runnable goroutine, while the return of Wait is up to the child
TaskStep(h) ==
    /\ WriteExitStatus(h) \/ tidyUp(h)
    /\ UNCHANGED stopped

\* the steps of the connections alone: Stop shares no variable with them
ConnNext == \E h \in Conns : Connection(h)

FairSpec == Init /\ [][ConnNext]_vars /\ \A h \in Conns : WF_vars(TaskStep(h))

(* ---- vocabulary of the properties ---- *)
AllEnds == (1..NumPipes) \X {"r", "w"}

DecodeError == "container_daemon: Decode failed"
PipeError == "container_daemon: Failed to create pipe"
CredentialErrors == {"container_daemon: failed to lookup user",
                     "container_daemon: lookup user"}
StartError == "container_daemon: running command"

WaitFailedFormat == "container_daemon: Wait failed: %s"
WriteFailedFormat == "container_daemon: failed to Write exit status: %s"

ReturnedOk(h) == result[h].returned /\ result[h].err = ""
\* every pipe end connection h created has been closed
NothingLeaked(h) == \A e \in AllEnds : Created(h, e) => Closes(h, e) >= 1
\* reportExitStatus of connection h reported a failure with this format
Reported(h, format) ==
    \E i \in DOMAIN reports[h] : reports[h][i].message[1] = format

(* ---- C1 ---- *)
\* C1: when the resolver returns no record or an error, Handle returns an
\* error and no descriptors, and every pipe end created in that call is closed
\* by the time Handle returns.
C1_UnresolvableUserLeaksNothing ==
    \A h \in Conns :
        (calls[h].Lookup = 1 /\ pc[h] = "returned" /\ calls[h].Start = 0) =>
            /\ result[h].err \in CredentialErrors
            /\ result[h].files = <<>>
            /\ NothingLeaked(h)

(* ---- C2 ---- *)
\* C2: when Runner.Start fails, Handle returns an error and no descriptors,
\* and all eight pipe ends are closed before Handle returns.
C2_StartFailureClosesAllEnds ==
    \A h \in Conns :
        (calls[h].Start = 1 /\ pc[h] = "returned" /\ calls[h].go = 0) =>
            /\ result[h].err = StartError
            /\ result[h].files = <<>>
            /\ Len(pipes[h]) = NumPipes
            /\ NothingLeaked(h)

(* ---- C3 ---- *)
\* C3: when the creation of the k-th pipe fails, the call fails and every end
\* of the k-1 pipes created before it is closed when Handle returns.
C3_PipeFailureClosesCreatedPipes ==
    \A h \in Conns :
        (pc[h] = "returned" /\ result[h].err = PipeError) =>
            /\ result[h].files = <<>>
            /\ NothingLeaked(h)

(* ---- C4 ---- *)
\* C4: a Handle call whose user resolves and whose Start succeeds returns no
\* error and exactly four descriptors, in the order stdin write end, stdout
\* read end, stderr read end, exit-status read end; each is the client end of
\* the pipe of that role created in this call, and each is open.
C4_FourOpenDescriptorsInOrder ==
    \A h \in Conns :
        (pc[h] = "returned" /\ calls[h].Start = 1 /\ calls[h].go = 1) =>
            /\ result[h].err = ""
            /\ Len(result[h].files) = 4
            /\ result[h].files[1] = <<1, "w">>
            /\ result[h].files[2] = <<2, "r">>
            /\ result[h].files[3] = <<3, "r">>
            /\ result[h].files[4] = <<4, "r">>
            /\ \A i \in 1..4 : IsOpen(h, result[h].files[i])
            /\ \A i \in 1..4 : result[h].files[i] \notin ServerEnds

C4_Witness ==
    \E h \in Conns :
        /\ ReturnedOk(h)
        /\ task[h] = "done"
        /\ Len(result[h].files) = 4

(* ---- C5 ---- *)
\* C5 as stated: once the completion task of a started command has finished,
\* the exit-status stream is exactly one byte followed by end-of-stream, and
\* when Wait succeeded the byte is the exit code Wait returned.
C5_ExactlyOneExitByte ==
    \A h \in Conns :
        task[h] = "done" =>
            /\ ~IsOpen(h, <<4, "w">>)
            /\ Len(written[h].exit) = 1
            /\ (waitResult[h].err = "" =>
                    written[h].exit[1] = waitResult[h].exitStatus)

\* C5 amended: once the completion task has finished, the exit-status stream
\* is at most one byte followed by end-of-stream; it is empty only when the
\* Write of the exit status failed (which the task reported), and when Wait
\* succeeded a delivered byte is the exit code Wait returned.
C5_AtMostOneExitByte ==
    \A h \in Conns :
        task[h] = "done" =>
            /\ ~IsOpen(h, <<4, "w">>)
            /\ Len(written[h].exit) <= 1
            /\ (written[h].exit = <<>> => Reported(h, WriteFailedFormat))
            /\ ((written[h].exit # <<>> /\ waitResult[h].err = "") =>
                    written[h].exit[1] = waitResult[h].exitStatus)

C5_Witness ==
    \E h \in Conns :
        /\ task[h] = "done"
        /\ waitResult[h].returned /\ waitResult[h].err = ""
        /\ waitResult[h].exitStatus = 1
        /\ written[h].exit = <<1>>

C7_DecodeFailureAllocatesNothing ==
    \A h \in Conns :
        result[h].err = DecodeError =>
            /\ result[h].files = <<>>
            /\ pipes[h] = <<>>
            /\ calls[h] = NoCalls
            /\ task[h] = "none"

C7_Witness ==
    \E h \in Conns : pc[h] = "returned" /\ result[h].err = DecodeError

(* ---- C8 ---- *)
\* C8: for a Handle call whose credential resolution failed (no record, or a
\* lookup error), Runner.Start is never called.
C8_NoStartAfterFailedLookup ==
    \A h \in Conns :
        result[h].err \in CredentialErrors =>
            /\ calls[h].Start = 0
            /\ calls[h].go = 0
            /\ ~cmd[h].built

C8_Witness ==
    \E h \in Conns :
        /\ pc[h] = "returned"
        /\ calls[h].Lookup = 1
        /\ result[h].err \in CredentialErrors

(* ---- C9 ---- *)
\* C9: no server end is ever closed twice, and once the completion task has
\* finished each of the four server ends has been closed exactly once.
C9_ServerEndsClosedOnce ==
    \A h \in Conns :
        \A e \in ServerEnds :
            Created(h, e) =>
                /\ Closes(h, e) <= 1
                /\ (task[h] = "done" => Closes(h, e) = 1)

C9_Witness ==
    \E h \in Conns :
        /\ task[h] = "done"
        /\ waitResult[h].err # ""
        /\ Reported(h, WriteFailedFormat)
        /\ \A e \in ServerEnds : Closes(h, e) = 1

(* ---- C10 ---- *)
\* C10: once Start has succeeded, the step in which Handle launches the
\* completion task and returns its descriptors is enabled whatever the state
\* of the completion task and of Runner.Wait: Handle never waits for them.
C10_ReturnNeverWaits ==
    \A h \in Conns : pc[h] = "go" => ENABLED Return(h)

C10_Witness ==
    \E h \in Conns :
        /\ ReturnedOk(h)
        /\ Len(result[h].files) = 4
        /\ task[h] = "wait"
        /\ calls[h].Wait = 0

(* ---- C11 ---- *)
\* everything one Handle call and its goroutine hold: the locals of Handle
\* and the arguments of reportExitStatus
ConnState(h) ==
    <<pc[h], spec[h], pipes[h], user[h], cmd[h], result[h], task[h],
      exitStatus[h], waitResult[h], written[h], reports[h], calls[h]>>

\* C11: concurrently handled requests are independent.  No pipe of one
\* request is a pipe of another, and a step of one request (of its Handle or
\* of its completion task) changes nothing of another request: not its pipe
\* ends, not the bytes written to its exit-status and stderr pipes, not the
\* descriptors it returned.
C11_IndependentPipeSets ==
    /\ [](\A g, h \in Conns :
            g < h =>
                \A i \in DOMAIN pipes[g] : \A j \in DOMAIN pipes[h] :
                    pipes[g][i].id # pipes[h][j].id)
    /\ [][\A h \in Conns :
            ConnState(h)' # ConnState(h) =>
                \A g \in Conns \ {h} :
                    /\ pipes'[g] = pipes[g]
                    /\ written'[g] = written[g]
                    /\ reports'[g] = reports[g]
                    /\ result'[g] = result[g]]_vars

C11_Witness ==
    \E g, h \in Conns :
        /\ g # h
        /\ ReturnedOk(g) /\ ReturnedOk(h)
        /\ task[g] = "done" /\ task[h] = "tidyUp"
        /\ written[g].exit # <<>> /\ written[h].exit # <<>>
        /\ written[g].exit # written[h].exit

(* ---- C12 ---- *)
\* C12: the completion task is launched at most once per Handle call, exactly
\* when Start succeeded; a call that failed (decode, pipe, credential or start
\* error) launches none, and Runner.Wait returns at most once, only for a
\* launched task, and exactly once for a finished one.
C12_OneTaskPerStartedCommand ==
    \A h \in Conns :
        /\ calls[h].go <= 1
        /\ calls[h].Wait <= calls[h].go
        /\ (task[h] # "none" <=> calls[h].go = 1)
        /\ (calls[h].go = 1 => (calls[h].Start = 1 /\ ReturnedOk(h)))
        /\ (ReturnedOk(h) => calls[h].go = 1)
        /\ ((result[h].returned /\ result[h].err # "") =>
                (calls[h].go = 0 /\ calls[h].Wait = 0 /\ task[h] = "none"))
        /\ (task[h] = "done" => calls[h].Wait = 1)

C12_Witness ==
    \E g, h \in Conns :
        /\ task[g] = "done" /\ calls[g].go = 1 /\ calls[g].Wait = 1
        /\ result[h].err = StartError /\ calls[h].Start = 1 /\ task[h] = "none"

(* ---- C13 ---- *)
\* C13: a second or later call of Stop returns no error.
C13_StopIdempotent ==
    stopped.calls >= 2 => stopped.err = ""

(* ---- C14 ---- *)
\* the text is a decimal number
AllDigits(text) == text # <<>> /\ \A i \in DOMAIN text : IsDigit(text[i])

\* C14: a command handed to Runner.Start carries the uid and the gid of the
\* record the resolver returned: both texts of the record are numbers and
\* the command's credential holds their values.
C14_StartedUnderResolvedIdentity ==
    \A h \in Conns :
        (calls[h].Start = 1 /\ user[h] \in UserRecords) =>
            /\ cmd[h].built
            /\ AllDigits(user[h].Uid) /\ cmd[h].Uid = ScanDigits(user[h].Uid, 0)
            /\ AllDigits(user[h].Gid) /\ cmd[h].Gid = ScanDigits(user[h].Gid, 0)

(* ---- C15 ---- *)
\* C15: Start is called only when all four pipes exist, the completion task
\* is launched only after Start succeeded, and whenever the completion task
\* has written or tried to write anything, the four client ends exist and are
\* open and the command has been started.
C15_PipesThenStartThenTask ==
    \A h \in Conns :
        /\ (calls[h].Start >= 1 => Len(pipes[h]) = NumPipes)
        /\ (task[h] # "none" => (calls[h].Start = 1 /\ Len(pipes[h]) = NumPipes))
        /\ ((written[h].exit # <<>> \/ written[h].stderr # <<>> \/ reports[h] # <<>>) =>
                /\ calls[h].Start = 1 /\ calls[h].go = 1
                /\ \A e \in ClientEnds : IsOpen(h, e))

C15_Witness ==
    \E h \in Conns :
        /\ task[h] = "tidyUp"
        /\ written[h].exit # <<>>
        /\ calls[h].Start = 1
        /\ \A e \in ClientEnds : IsOpen(h, e)

(* ---- C16 ---- *)
\* C16: every write of the completion task (the exit-status byte and the two
\* diagnostics) is made while all four server ends are open, before and after
\* the step; nothing is written to the exit-status pipe after the exit-status
\* byte; and once the cleanup is done the task writes nothing.
C16_WritesBeforeCleanup ==
    [][\A h \in Conns :
        /\ (written'[h] # written[h] \/ reports'[h] # reports[h]) =>
              /\ task[h] \in {"wait", "write"}
              /\ \A e \in ServerEnds : IsOpen(h, e) /\ IsOpen(h, e)'
        /\ (written[h].exit # <<>> => written'[h].exit = written[h].exit)
        /\ (task[h] = "done" =>
              (written'[h] = written[h] /\ reports'[h] = reports[h]))]_vars

C16_Witness ==
    \E h \in Conns :
        /\ task[h] = "done"
        /\ written[h].exit # <<>>
        /\ written[h].stderr # <<>>
        /\ \A e \in ServerEnds : ~IsOpen(h, e)

(* ---- C17 ---- *)
\* C17: once Runner.Wait has returned for a command, its completion task
\* eventually finishes with each of the four server ends closed; and no
\* server end is closed while Wait has not returned.
C17_TaskFinishesAfterWait ==
    /\ \A h \in Conns :
          waitResult[h].returned ~>
              (task[h] = "done" /\ \A e \in ServerEnds : Closes(h, e) = 1)
    /\ [](\A h \in Conns : \A e \in ServerEnds :
              (Created(h, e) /\ Closes(h, e) > 0) => waitResult[h].returned)

C17_Witness ==
    \E h \in Conns :
        /\ waitResult[h].returned
        /\ task[h] = "done"
        /\ written[h].exit = <<>>
        /\ \A e \in ServerEnds : Closes(h, e) = 1

(* ---- C18 ---- *)
\* C18: a call of Stop changes nothing of any connection (no pipe end, no
\* returned descriptor, no command, no completion task), and after Stop every
\* pending completion task can still take its next step.
C18_StopLeavesCommandsAlone ==
    /\ [][stopped' # stopped => UNCHANGED connVars]_vars
    /\ [](stopped.calls > 0 =>
            \A h \in Conns :
                task[h] \in {"wait", "write", "tidyUp"} =>
                    ENABLED (reportExitStatus(h) /\ UNCHANGED stopped))

C18_Witness ==
    \E h \in Conns :
        /\ stopped.calls >= 1
        /\ task[h] = "write"
        /\ ReturnedOk(h)
        /\ \A e \in ClientEnds \cup ServerEnds : IsOpen(h, e)

(* ---- C19 ---- *)
\* C19: no process is started for a ProcessSpec whose user name is empty:
\* while Handle works on such a spec, Runner.Start has not been called.
C19_EmptyUserNeverStarts ==
    \A h \in Conns :
        (spec[h].decoded /\ spec[h].User = "") =>
            (calls[h].Start = 0 /\ ~cmd[h].built)

(* ---- C20 ---- *)
\* C20: at most one byte is ever written to a command's exit-status pipe, and
\* once its server end is closed the stream is either the one byte of the
\* reported status or empty, the Write having failed.
C20_AtMostOneByteEver ==
    \A h \in Conns :
        /\ Len(written[h].exit) <= 1
        /\ (Created(h, <<4, "w">>) /\ ~IsOpen(h, <<4, "w">>)) =>
              \/ written[h].exit = <<exitStatus[h]>>
              \/ (written[h].exit = <<>> /\ Reported(h, WriteFailedFormat))

C20_Witness ==
    \E h \in Conns :
        /\ Created(h, <<4, "w">>) /\ ~IsOpen(h, <<4, "w">>)
        /\ written[h].exit = <<>>
        /\ Reported(h, WriteFailedFormat)

====
